---- MODULE Spec2Model ----
(***************************************************************************)
(* A model of StockOutlierChecker (src/src/stock_outlier.py): a CSV file   *)
(* of (Date, Price) rows is read into a data frame, indexed by date,       *)
(* differenced, screened for outliers, cleaned and written back.           *)
(*                                                                         *)
(* Floats are exact rationals with NaN and the two infinities, as the      *)
(* prices of the model are integers.  Text is a sequence of one-character  *)
(* strings (paths) or a record of its fields (dates, numbers).             *)
(***************************************************************************)
EXTENDS Integers, Sequences, FiniteSets, TLC

VARIABLES
    csv_path,   \* self.csv_path: the input path, a sequence of characters
    csvFile,    \* the file at csv_path: [columns, rows]
    obj,        \* "none" before __init__, "ready" after it, "failed" if it raised
    df,         \* self.df: [columns, index, rows]
    outliers,   \* self.outliers: [isNone, rows]
    out_path,   \* self.out_path, <<>> until write_cleaned_data_to_csv sets it
    outFile,    \* the file written at out_path: [written, columns, rows]
    last,       \* the last call: [op, err, tol], err = <<>> when it returned
    cleaned,    \* whether clean_stock_data has returned
    stage       \* how far the last calls are through identify_outliers(t),
                \* clean_stock_data, identify_outliers(t): [n, tol]

vars ==
    <<csv_path, csvFile, obj, df, outliers, out_path, outFile, last, cleaned, stage>>

----------------------------------------------------------------------------
(* Bounds of the model *)

MaxLen == 3        \* rows of an input file
MaxPathLen == 4    \* characters of an input path

----------------------------------------------------------------------------
(* Floating point values: NaN, +/-infinity, and rationals n/d in lowest    *)
(* terms with d > 0                                                        *)

AbsInt(i) == IF i < 0 THEN -i ELSE i

RECURSIVE Gcd(_, _)
Gcd(a, b) == IF b = 0 THEN a ELSE Gcd(b, a % b)

NaN == [k |-> "nan", n |-> 0, d |-> 1]
PosInf == [k |-> "inf", n |-> 1, d |-> 1]
NegInf == [k |-> "inf", n |-> -1, d |-> 1]

Num(n, d) ==
    LET s == IF d < 0 THEN -1 ELSE 1
        g == Gcd(AbsInt(n), AbsInt(d))
    IN  [k |-> "num", n |-> (s * n) \div g, d |-> (s * d) \div g]

Sign(x) == IF x.n < 0 THEN -1 ELSE IF x.n > 0 THEN 1 ELSE 0

\* x - y
FSub(x, y) ==
    CASE x.k = "nan" \/ y.k = "nan" -> NaN
      [] x.k = "inf" /\ y.k = "inf" -> IF x.n = y.n THEN NaN ELSE x
      [] x.k = "inf" -> x
      [] y.k = "inf" -> IF y.n > 0 THEN NegInf ELSE PosInf
      [] OTHER -> Num(x.n * y.d - y.n * x.d, x.d * y.d)

\* x / y, IEEE 754: x/0 is an infinity of x's sign, 0/0 is NaN
FDiv(x, y) ==
    CASE x.k = "nan" \/ y.k = "nan" -> NaN
      [] x.k = "inf" /\ y.k = "inf" -> NaN
      [] x.k = "inf" -> IF Sign(y) < 0 THEN [x EXCEPT !.n = -x.n] ELSE x
      [] y.k = "inf" -> Num(0, 1)
      [] y.n = 0 -> IF x.n = 0 THEN NaN ELSE IF x.n > 0 THEN PosInf ELSE NegInf
      [] OTHER -> Num(x.n * y.d, x.d * y.n)

\* abs(x)
FAbs(x) == IF x.k = "nan" THEN x ELSE [x EXCEPT !.n = AbsInt(x.n)]

\* x > y; every comparison with NaN is False
FGt(x, y) ==
    CASE x.k = "nan" \/ y.k = "nan" -> FALSE
      [] x.k = "inf" /\ y.k = "inf" -> x.n > y.n
      [] x.k = "inf" -> x.n > 0
      [] y.k = "inf" -> y.n < 0
      [] OTHER -> x.n * y.d > y.n * x.d

----------------------------------------------------------------------------
(* Cells: the text of a date "a<sep>b<sep>c", a Timestamp, a RangeIndex    *)
(* label, the text of an integer                                           *)

Str(sep, a, b, c) == [kind |-> "str", sep |-> sep, a |-> a, b |-> b, c |-> c]
Ts(y, m, d) == [kind |-> "ts", sep |-> "", a |-> y, b |-> m, c |-> d]
RangeLabel(i) == [kind |-> "int", sep |-> "", a |-> i, b |-> 0, c |-> 0]
NoCell == [kind |-> "none", sep |-> "", a |-> 0, b |-> 0, c |-> 0]

RECURSIVE Digits(_)
Digits(n) == IF n < 10 THEN <<n>> ELSE Append(Digits(n \div 10), n % 10)

\* str(i), as to_csv writes an integer
FormatInt(i) == [neg |-> i < 0, digits |-> Digits(AbsInt(i))]

RECURSIVE DigitsValue(_)
DigitsValue(ds) ==
    IF ds = <<>> THEN 0
    ELSE 10 * DigitsValue(SubSeq(ds, 1, Len(ds) - 1)) + ds[Len(ds)]

\* int(text), as read_csv reads an integer column
ParseInt(t) == IF t.neg THEN -DigitsValue(t.digits) ELSE DigitsValue(t.digits)

----------------------------------------------------------------------------
(* Paths: os.path.basename, str.replace                                    *)

IsPrefixAt(s, i, old) ==
    /\ i + Len(old) - 1 <= Len(s)
    /\ SubSeq(s, i, i + Len(old) - 1) = old

\* the largest i with p[i] = "/", 0 when there is none: p.rfind("/") + 1
LastSlash(p) ==
    LET S == {i \in 1..Len(p) : p[i] = "/"}
    IN  IF S = {} THEN 0 ELSE CHOOSE i \in S : \A j \in S : j <= i

\* os.path.basename(p)
Basename(p) == SubSeq(p, LastSlash(p) + 1, Len(p))

\* s.replace(old, new) from position i on: every non-overlapping
\* occurrence of old, left to right (old is not empty)
RECURSIVE ReplaceFrom(_, _, _, _)
ReplaceFrom(s, i, old, new) ==
    IF i > Len(s) THEN <<>>
    ELSE IF IsPrefixAt(s, i, old)
         THEN new \o ReplaceFrom(s, i + Len(old), old, new)
         ELSE <<s[i]>> \o ReplaceFrom(s, i + 1, old, new)

Replace(s, old, new) == ReplaceFrom(s, 1, old, new)

CleanedPrefix == <<"C", "l", "e", "a", "n", "e", "d", "_">>

\* out_path of write_cleaned_data_to_csv
OutPath(path) ==
    LET old_basename == Basename(path)
        basename == CleanedPrefix \o old_basename
    IN  Replace(path, old_basename, basename)

----------------------------------------------------------------------------
(* Data frames.  A row carries its index label, its Date cell (NoCell once *)
(* Date is the index), its Price and the two derived columns (NaN until    *)
(* take_first_difference adds them: df.columns says whether they exist).   *)

None == [isNone |-> TRUE, rows |-> <<>>]
Frame(rows) == [isNone |-> FALSE, rows |-> rows]

NoError == <<>>
NoTol == Num(0, 1)

\* the column names the model knows, in alphabetical order
ColumnOrder == <<"Close", "Date", "Price", "Time">>

\* sorted(list(S)) for a set of column names
SortedList(S) == SelectSeq(ColumnOrder, LAMBDA c : c \in S)

\* sep.join(list), as the sequence of its pieces
RECURSIVE Join(_, _)
Join(list, sep) ==
    IF Len(list) <= 1 THEN list
    ELSE <<list[1], sep>> \o Join(Tail(list), sep)

\* "and" for "or"
ColumnsBothMissing(columns) == "Date" \notin columns /\ "Price" \notin columns

\* line 84: the condition under which read_csv raises
ColumnsMissing(columns) == "Date" \notin columns \/ "Price" \notin columns

\* lines 86-90: the message of the exception
MissingMessage(columns) ==
    LET missing == {"Date", "Price"} \ columns
    IN  <<"Column(s) '">> \o Join(SortedList(missing), ", ")
            \o <<"' is/are missing from df">>

\* pd.read_csv: a frame with a RangeIndex, the columns of the file
ReadFrame(file) ==
    [columns |-> file.columns,
     index |-> "",
     rows |-> [i \in 1..Len(file.rows) |->
                 [label |-> RangeLabel(i - 1),
                  Date |-> IF "Date" \in file.columns
                           THEN file.rows[i].Date ELSE NoCell,
                  Price |-> ParseInt(file.rows[i].Price),
                  RD |-> NaN,
                  PC |-> NaN]]]

EmptyFrame == [columns |-> {}, index |-> "", rows |-> <<>>]
NoFile == [written |-> FALSE, columns |-> {}, rows |-> <<>>]

----------------------------------------------------------------------------
(* set_df_index_to_date *)

DaysInMonth(y, m) ==
    IF m = 2
    THEN IF (y % 4 = 0 /\ y % 100 # 0) \/ y % 400 = 0 THEN 29 ELSE 28
    ELSE IF m \in {4, 6, 9, 11} THEN 30 ELSE 31

\* to_datetime without its format: any date text is accepted
ParsesAnyFormat(cell) == cell.kind = "str"

\* whether pd.to_datetime(cell, format="%d/%m/%Y") accepts the text: day,
\* month and year separated by "/", a date of the calendar that a
\* datetime64[ns] can hold
Parses(cell) ==
    /\ cell.kind = "str"
    /\ cell.sep = "/"
    /\ cell.c \in 1678..2261
    /\ cell.b \in 1..12
    /\ cell.a \in 1..DaysInMonth(cell.c, cell.b)

\* the Timestamp of a text "day/month/year"
ToDatetime(cell) == Ts(cell.c, cell.b, cell.a)

\* df["Date"].dtype
DateDtype(frame) ==
    IF frame.rows # <<>> /\ \A i \in 1..Len(frame.rows) : frame.rows[i].Date.kind = "ts"
    THEN "datetime64[ns]" ELSE "object"

FormatMessage == <<"Date format does not match '%d/%m/%Y'">>
KeyError(name) == <<"KeyError", name>>
AttributeError == <<"AttributeError", "'NoneType' object has no attribute 'index'">>

\* line 104: the Date column as Timestamps
ConvertDates(frame) ==
    [frame EXCEPT !.rows = [i \in 1..Len(frame.rows) |->
        [frame.rows[i] EXCEPT !.Date = ToDatetime(frame.rows[i].Date)]]]

\* line 110: df.set_index("Date", inplace=True)
SetIndex(frame) ==
    [columns |-> frame.columns \ {"Date"},
     index |-> "Date",
     rows |-> [i \in 1..Len(frame.rows) |->
                 [frame.rows[i] EXCEPT !.label = frame.rows[i].Date, !.Date = NoCell]]]

\* set_df_index_to_date on a frame: the error raised, the frame left
IndexByDate(frame) ==
    IF "Date" \notin frame.columns
    THEN [err |-> KeyError("Date"), df |-> frame]
    ELSE IF DateDtype(frame) # "datetime64[ns]"
         THEN IF \A i \in 1..Len(frame.rows) : Parses(frame.rows[i].Date)
              THEN [err |-> NoError, df |-> SetIndex(ConvertDates(frame))]
              ELSE [err |-> FormatMessage, df |-> frame]
         ELSE [err |-> NoError, df |-> SetIndex(frame)]

----------------------------------------------------------------------------
(* take_first_difference *)

\* Series.shift(1)
Shift(col) == [i \in 1..Len(col) |-> IF i = 1 THEN NaN ELSE col[i - 1]]

\* the window read the other way round
WindowDiffSwapped(x) == FSub(x[1], x[2])

\* lambda x: x.iloc[1] - x.iloc[0]
WindowDiff(x) == FSub(x[2], x[1])

\* Series.rolling(window=2).apply(f): NaN until the window is full
Rolling2(col) ==
    [i \in 1..Len(col) |-> IF i < 2 THEN NaN ELSE WindowDiff(<<col[i - 1], col[i]>>)]

PriceColumn(frame) == [i \in 1..Len(frame.rows) |-> Num(frame.rows[i].Price, 1)]
PcntColumn(frame) == [i \in 1..Len(frame.rows) |-> frame.rows[i].PC]

\* lines 143-150
FirstDifference(frame) ==
    LET price == PriceColumn(frame)
        rolling == Rolling2(price)
        shifted == Shift(price)
    IN  [frame EXCEPT
            !.columns = @ \cup {"Rolling Difference", "Pcnt Change"},
            !.rows = [i \in 1..Len(frame.rows) |->
                [frame.rows[i] EXCEPT !.RD = rolling[i],
                                      !.PC = FDiv(rolling[i], shifted[i])]]]

----------------------------------------------------------------------------
(* identify_outliers, clean_stock_data *)

\* the default of acceptable_pcnt_change, 0.05
DefaultTol == Num(1, 20)

Tolerances == {DefaultTol, Num(1, 1), Num(10, 1)}

\* rows[mask]: the rows where the boolean mask holds, in order
BoolIndex(rows, mask) ==
    LET idx == SelectSeq([i \in 1..Len(rows) |-> i], LAMBDA i : mask[i])
    IN  [j \in 1..Len(idx) |-> rows[idx[j]]]

Labels(rows) == {rows[i].label : i \in 1..Len(rows)}

\* ">=" for ">"
ExceedsOrEquals(col, t) ==
    [i \in 1..Len(col) |-> FGt(FAbs(col[i]), t) \/ FAbs(col[i]) = t]

\* abs(col) > t
Exceeds(col, t) == [i \in 1..Len(col) |-> FGt(FAbs(col[i]), t)]

\* line 171
TempOutliers(frame, t) == BoolIndex(frame.rows, Exceeds(PcntColumn(frame), t))

\* lines 176-178
ComplementaryChange(frame, t) ==
    BoolIndex(frame.rows, Exceeds(Shift(PcntColumn(frame)), t))

\* the mask without its negation: the complementary changes are kept
OnlyComplementary(temp, complementary) ==
    SelectSeq(temp, LAMBDA r : r.label \in Labels(complementary))

\* line 184: temp_outliers[~temp_outliers.index.isin(complementary_change.index)]
NotComplementary(temp, complementary) ==
    SelectSeq(temp, LAMBDA r : r.label \notin Labels(complementary))

\* pd.concat([a, b]): a None is dropped
Concat(a, b) == IF a.isNone THEN b ELSE Frame(a.rows \o b.rows)

\* no reset: the old outliers stay
KeepOutliers(old) == old

\* line 168
ResetOutliers(old) == None

\* lines 168-186
IdentifiedOutliers(old, frame, t) ==
    Concat(ResetOutliers(old),
           Frame(NotComplementary(TempOutliers(frame, t),
                                  ComplementaryChange(frame, t))))

\* the mask without its negation
CleanFrameKeepsOutliers(frame, out) ==
    [frame EXCEPT !.rows = SelectSeq(frame.rows, LAMBDA r : r.label \in Labels(out.rows))]

\* line 216: df[~df.index.isin(outliers.index)]
CleanFrame(frame, out) ==
    [frame EXCEPT !.rows = SelectSeq(frame.rows, LAMBDA r : r.label \notin Labels(out.rows))]

----------------------------------------------------------------------------
(* write_cleaned_data_to_csv *)

\* an index label as to_csv writes it: a Timestamp as year-month-day
FormatLabel(label) ==
    IF label.kind = "ts" THEN Str("-", label.a, label.b, label.c) ELSE label

\* df[["Price"]].to_csv(path): the index and the Price column
ToCsv(frame) ==
    [written |-> TRUE,
     columns |-> {IF frame.index = "Date" THEN "Date" ELSE "Unnamed: 0", "Price"},
     rows |-> [i \in 1..Len(frame.rows) |->
                 [Date |-> FormatLabel(frame.rows[i].label),
                  Price |-> FormatInt(frame.rows[i].Price)]]]

----------------------------------------------------------------------------
(* Inputs *)

Prices == {0, 2}

SignedPrices == {-1, 0, 2}

\* day/month/year, as the input file is to hold them
GoodDates == {Str("/", 19, 9, 2021), Str("/", 20, 9, 2021)}

\* year-month-day
BadDates == {Str("-", 2021, 9, 20)}

FileRows(dates, prices, n) ==
    {[i \in 1..n |-> [Date |-> f[i][1], Price |-> FormatInt(f[i][2])]] :
        f \in [1..n -> dates \X prices]}

WithColumns(columns, rowsets) == {[columns |-> columns, rows |-> r] : r \in rowsets}

\* well-formed files of up to MaxLen rows; the dates need not be unique
\* or ascending
DataFiles ==
    WithColumns({"Date", "Price"},
                UNION {FileRows(GoodDates, Prices, n) : n \in 0..MaxLen})

\* files of one or two rows: dates in either format, prices of either sign
ShortFiles ==
    WithColumns({"Date", "Price"},
                UNION {FileRows(GoodDates \cup BadDates, SignedPrices, n) : n \in 1..2})

\* the frame the tests' read_csv returns (tests, lines 67-77): Timestamps
FixtureFile ==
    [columns |-> {"Date", "Price"},
     rows |-> <<[Date |-> Ts(2021, 9, 19), Price |-> FormatInt(0)],
                [Date |-> Ts(2021, 9, 20), Price |-> FormatInt(600)],
                [Date |-> Ts(2021, 9, 21), Price |-> FormatInt(800)],
                [Date |-> Ts(2021, 9, 22), Price |-> FormatInt(1200)]>>]

\* files of at most one row with any set of columns
ColumnFiles ==
    UNION {WithColumns(c, UNION {FileRows(GoodDates, Prices, n) : n \in 0..1}) :
              c \in SUBSET {"Close", "Date", "Price", "Time"}}

\* scripts/find_outliers.py, line 48
ScriptPath ==
    <<".", ".", "/", "d", "a", "t", "a", "/",
      "O", "u", "t", "l", "i", "e", "r", "s", ".", "c", "s", "v">>

PathChars == {"a", "b", "/"}

\* paths of up to MaxPathLen characters that name a file
Paths ==
    {p \in UNION {[1..n -> PathChars] : n \in 1..MaxPathLen} : p[Len(p)] # "/"}

\* a file of one row, read from any of the paths
OneRowFile ==
    [columns |-> {"Date", "Price"},
     rows |-> <<[Date |-> Str("/", 19, 9, 2021), Price |-> FormatInt(2)]>>]

Inputs ==
    ({ScriptPath} \X (DataFiles \cup ShortFiles \cup ColumnFiles \cup {FixtureFile}))
        \cup (Paths \X {OneRowFile})

----------------------------------------------------------------------------
(* The operations *)

Called(op, err) == [op |-> op, err |-> err, tol |-> NoTol]

\* the calls so far are no part of a detection followed by a clean
Idle == [n |-> 0, tol |-> NoTol]

\* identify_outliers(t) has returned: a first detection, or (n = 3) the
\* detection that follows identify_outliers(t) and clean_stock_data
Detected(old, t) ==
    IF old.n = 2 /\ old.tol = t THEN [n |-> 3, tol |-> t] ELSE [n |-> 1, tol |-> t]

\* clean_stock_data has returned: right after a detection, or not
Cleaned(old) == IF old.n \in {1, 3} THEN [n |-> 2, tol |-> old.tol] ELSE Idle

Init ==
    /\ \E in \in Inputs : csv_path = in[1] /\ csvFile = in[2]
    /\ obj = "none"
    /\ df = EmptyFrame
    /\ outliers = None
    /\ out_path = <<>>
    /\ outFile = NoFile
    /\ last = Called("", NoError)
    /\ cleaned = FALSE
    /\ stage = Idle

\* __init__ and read_csv (lines 56-90)
Construct ==
    /\ obj = "none"
    /\ df' = ReadFrame(csvFile)
    /\ outliers' = None
    /\ IF ColumnsMissing(df'.columns)
       THEN /\ obj' = "failed"
            /\ last' = Called("read_csv", MissingMessage(df'.columns))
       ELSE /\ obj' = "ready"
            /\ last' = Called("read_csv", NoError)
    /\ stage' = Idle
    /\ UNCHANGED <<csv_path, csvFile, out_path, outFile, cleaned>>

\* set_df_index_to_date (lines 93-110)
SetDfIndexToDate ==
    /\ obj = "ready"
    /\ LET r == IndexByDate(df)
       IN  /\ df' = r.df
           /\ last' = Called("set_df_index_to_date", r.err)
    /\ stage' = Idle
    /\ UNCHANGED <<csv_path, csvFile, obj, outliers, out_path, outFile, cleaned>>

\* take_first_difference (lines 139-150)
TakeFirstDifference ==
    /\ obj = "ready"
    /\ df' = FirstDifference(df)
    /\ last' = Called("take_first_difference", NoError)
    /\ stage' = Idle
    /\ UNCHANGED <<csv_path, csvFile, obj, outliers, out_path, outFile, cleaned>>

\* identify_outliers (lines 153-190)
IdentifyOutliers(t) ==
    /\ obj = "ready"
    /\ IF "Pcnt Change" \notin df.columns
       THEN /\ outliers' = ResetOutliers(outliers)
            /\ last' = [op |-> "identify_outliers", err |-> KeyError("Pcnt Change"),
                        tol |-> t]
            /\ stage' = Idle
       ELSE /\ outliers' = IdentifiedOutliers(outliers, df, t)
            /\ last' = [op |-> "identify_outliers", err |-> NoError, tol |-> t]
            /\ stage' = Detected(stage, t)
    /\ UNCHANGED <<csv_path, csvFile, obj, df, out_path, outFile, cleaned>>

\* a None taken for no outliers: nothing raised, nothing removed
CleanStockDataImplicitEmpty ==
    /\ obj = "ready"
    /\ df' = CleanFrame(df, outliers)
    /\ last' = Called("clean_stock_data", NoError)
    /\ cleaned' = TRUE
    /\ stage' = Cleaned(stage)
    /\ UNCHANGED <<csv_path, csvFile, obj, outliers, out_path, outFile>>

\* clean_stock_data (lines 212-216)
CleanStockData ==
    /\ obj = "ready"
    /\ IF outliers.isNone
       THEN /\ df' = df
            /\ last' = Called("clean_stock_data", AttributeError)
            /\ cleaned' = cleaned
            /\ stage' = Idle
       ELSE /\ df' = CleanFrame(df, outliers)
            /\ last' = Called("clean_stock_data", NoError)
            /\ cleaned' = TRUE
            /\ stage' = Cleaned(stage)
    /\ UNCHANGED <<csv_path, csvFile, obj, outliers, out_path, outFile>>

\* write_cleaned_data_to_csv (lines 219-233)
WriteCleanedDataToCsv ==
    /\ obj = "ready"
    /\ out_path' = OutPath(csv_path)
    /\ outFile' = ToCsv(df)
    /\ last' = Called("write_cleaned_data_to_csv", NoError)
    /\ stage' = Idle
    /\ UNCHANGED <<csv_path, csvFile, obj, df, outliers, cleaned>>

Next ==
    \/ Construct
    \/ SetDfIndexToDate
    \/ TakeFirstDifference
    \/ \E t \in Tolerances : IdentifyOutliers(t)
    \/ CleanStockData
    \/ WriteCleanedDataToCsv

Spec == Init /\ [][Next]_vars

----------------------------------------------------------------------------
(* The properties.  They are stated on the rows themselves, without the    *)
(* operators of the operations above.                                      *)

Returned(op) == obj = "ready" /\ last.op = op /\ last.err = NoError

\* abs(x) > t for a float x and a tolerance t = t.n / t.d: never for NaN,
\* always for an infinity
Big(x, t) ==
    \/ x.k = "inf"
    \/ x.k = "num" /\ AbsInt(x.n) * t.d > t.n * x.d

\* the rows at the positions of P, in their order
RECURSIVE RowsAt(_, _, _)
RowsAt(rows, P, i) ==
    IF i > Len(rows) THEN <<>>
    ELSE (IF i \in P THEN <<rows[i]>> ELSE <<>>) \o RowsAt(rows, P, i + 1)

Candidates(rows, t) == {i \in 1..Len(rows) : Big(rows[i].PC, t)}
Rebounds(rows, t) == {i \in 2..Len(rows) : Big(rows[i - 1].PC, t)}

\* C1: after identify_outliers(t) the outliers are exactly the rows i with
\* abs(percent_change[i]) > t whose preceding row i-1 does not have
\* abs(percent_change[i-1]) > t: the candidates minus the rebounds.
C1_OutliersAreCandidatesMinusRebounds ==
    Returned("identify_outliers") =>
        outliers = Frame(RowsAt(df.rows,
                                Candidates(df.rows, last.tol) \ Rebounds(df.rows, last.tol),
                                1))

\* C2: clean_stock_data, run after identify_outliers, leaves exactly the
\* rows whose index value is not the index value of an outlier, in their
\* order, and no remaining row has the index value of an outlier.
C2_CleanKeepsExactlyOtherTimestamps ==
    [][(obj = "ready" /\ ~outliers.isNone /\ last'.op = "clean_stock_data") =>
          LET O == {outliers.rows[j].label : j \in 1..Len(outliers.rows)}
              kept == {i \in 1..Len(df.rows) : df.rows[i].label \notin O}
          IN  /\ last'.err = NoError
              /\ df'.rows = RowsAt(df.rows, kept, 1)
              /\ \A i \in 1..Len(df'.rows) : df'.rows[i].label \notin O
              /\ df'.columns = df.columns /\ df'.index = df.index
              /\ outliers' = outliers]_vars

\* a clean that removed some rows and kept others
C2_Witness ==
    /\ Returned("clean_stock_data")
    /\ outliers.rows # <<>>
    /\ df.rows # <<>>
    /\ Len(df.rows) < Len(csvFile.rows)

\* C3: after any sequence of identify_outliers calls the outliers are those
\* of a single call with the last tolerance on a detector that never ran
\* detection: the candidates whose index value is not that of a rebound,
\* and nothing of an earlier call; a repeated call changes nothing.
C3_OutliersAreThoseOfTheLastCall ==
    Returned("identify_outliers") =>
        LET t == last.tol
            R == {df.rows[i].label : i \in Rebounds(df.rows, t)}
            fresh == {i \in Candidates(df.rows, t) : df.rows[i].label \notin R}
        IN  outliers = Frame(RowsAt(df.rows, fresh, 1))

\* a call with tolerance 10 that left no outlier where the default
\* tolerance flags one
C3_Witness ==
    /\ Returned("identify_outliers")
    /\ last.tol = Num(10, 1)
    /\ outliers.rows = <<>>
    /\ Candidates(df.rows, Num(1, 20)) \ Rebounds(df.rows, Num(1, 20)) # {}

\* the quotient n/d of two integers, d # 0, as a float
IsQuotient(x, n, d) == x.k = "num" /\ x.d > 0 /\ x.n * d = n * x.d

\* C4: take_first_difference gives row 0 undefined values and every row
\* i > 0 difference[i] = price[i] - price[i-1] and percent_change[i] =
\* difference[i] / price[i-1]: +infinity, -infinity or NaN when price[i-1]
\* is 0 and the difference is positive, negative or 0.  Prices
\* [0, 600, 800, 1200] give [NaN, 600, 200, 400] and [NaN, +inf, 1/3, 1/2].
C4_FirstDifference ==
    Returned("take_first_difference") =>
        /\ \A i \in 1..Len(df.rows) :
             LET r == df.rows[i]
                 prev == df.rows[i - 1].Price
                 diff == r.Price - prev
             IN  IF i = 1 THEN r.RD.k = "nan" /\ r.PC.k = "nan"
                 ELSE /\ r.RD = [k |-> "num", n |-> diff, d |-> 1]
                      /\ IF prev # 0 THEN IsQuotient(r.PC, diff, prev)
                         ELSE IF diff > 0 THEN r.PC.k = "inf" /\ r.PC.n = 1
                         ELSE IF diff < 0 THEN r.PC.k = "inf" /\ r.PC.n = -1
                         ELSE r.PC.k = "nan"
        /\ (csvFile = FixtureFile /\ Len(df.rows) = 4) =>
             /\ [i \in 1..4 |-> df.rows[i].RD] =
                  <<[k |-> "nan", n |-> 0, d |-> 1], [k |-> "num", n |-> 600, d |-> 1],
                    [k |-> "num", n |-> 200, d |-> 1], [k |-> "num", n |-> 400, d |-> 1]>>
             /\ [i \in 1..4 |-> df.rows[i].PC] =
                  <<[k |-> "nan", n |-> 0, d |-> 1], [k |-> "inf", n |-> 1, d |-> 1],
                    [k |-> "num", n |-> 1, d |-> 3], [k |-> "num", n |-> 1, d |-> 2]>>

\* a price that falls from 0: the percent change is -infinity
C4_Witness ==
    /\ Returned("take_first_difference")
    /\ \E i \in 2..Len(df.rows) :
          /\ df.rows[i - 1].Price = 0
          /\ df.rows[i].Price < 0
          /\ df.rows[i].PC = NegInf

\* C5: loading fails if and only if Date or Price is not a column of the
\* input; the message names the missing ones of Date and Price, sorted and
\* joined with ", "; other columns never matter; nothing is indexed before
\* the check.
C5_MissingColumns ==
    obj # "none" =>
        LET noDate == "Date" \notin csvFile.columns
            noPrice == "Price" \notin csvFile.columns
        IN  /\ obj = "failed" <=> (noDate \/ noPrice)
            /\ obj = "failed" =>
                 /\ last.op = "read_csv"
                 /\ df.index = ""
                 /\ last.err =
                      IF noDate /\ noPrice
                      THEN <<"Column(s) '", "Date", ", ", "Price", "' is/are missing from df">>
                      ELSE IF noDate
                      THEN <<"Column(s) '", "Date", "' is/are missing from df">>
                      ELSE <<"Column(s) '", "Price", "' is/are missing from df">>
            /\ (obj = "ready" /\ last.op = "read_csv") => last.err = NoError /\ df.index = ""

\* a file with the two columns of the tests, neither of them Date or Price
C5_Witness ==
    /\ obj = "failed"
    /\ csvFile.columns = {"Close", "Time"}
    /\ last.err = <<"Column(s) '", "Date", ", ", "Price", "' is/are missing from df">>

\* a text "day/month/year" of the calendar
IsDayMonthYear(cell) ==
    /\ cell.kind = "str"
    /\ cell.sep = "/"
    /\ cell.b \in 1..12
    /\ cell.a \in 1..DaysInMonth(cell.c, cell.b)

\* C6: on a frame with a Date column, set_df_index_to_date fails with the
\* error naming '%d/%m/%Y' whenever the dates are not Timestamps already
\* and one of them is not a text day/month/year, and then leaves the frame
\* as it was; otherwise it succeeds, Date is the index and the rows keep
\* their order.
C6_IndexByDate ==
    [][(obj = "ready" /\ "Date" \in df.columns /\ last'.op = "set_df_index_to_date") =>
          LET n == Len(df.rows)
              canonical == n > 0 /\ \A i \in 1..n : df.rows[i].Date.kind = "ts"
              allParse == \A i \in 1..n : IsDayMonthYear(df.rows[i].Date)
          IN  IF ~canonical /\ ~allParse
              THEN /\ last'.err = <<"Date format does not match '%d/%m/%Y'">>
                   /\ df' = df
              ELSE /\ last'.err = NoError
                   /\ df'.index = "Date"
                   /\ df'.columns = df.columns \ {"Date"}
                   /\ Len(df'.rows) = n
                   /\ \A i \in 1..n :
                        LET old == df.rows[i]
                            new == df'.rows[i]
                        IN  /\ new.Price = old.Price
                            /\ new.RD = old.RD /\ new.PC = old.PC
                            /\ new.label.kind = "ts"
                            /\ IF canonical THEN new.label = old.Date
                               ELSE /\ new.label.a = old.Date.c
                                    /\ new.label.b = old.Date.b
                                    /\ new.label.c = old.Date.a]_vars

\* a failed call on a frame with one date in the format and one not
C6_Witness ==
    /\ obj = "ready"
    /\ last.op = "set_df_index_to_date"
    /\ last.err = <<"Date format does not match '%d/%m/%Y'">>
    /\ df.index = ""
    /\ "Date" \in df.columns
    /\ \E i, j \in 1..Len(df.rows) :
          /\ IsDayMonthYear(df.rows[i].Date)
          /\ df.rows[j].Date.kind = "str" /\ ~IsDayMonthYear(df.rows[j].Date)

RECURSIVE RStripSlash(_)
RStripSlash(h) ==
    IF h # <<>> /\ h[Len(h)] = "/" THEN RStripSlash(SubSeq(h, 1, Len(h) - 1)) ELSE h

\* the directory part of a path, as os.path.dirname: the head up to the last slash, trailing slashes
\* stripped unless the head is slashes only
Dirname(p) ==
    LET head == SubSeq(p, 1, LastSlash(p))
    IN  IF head # <<>> /\ \E i \in 1..Len(head) : head[i] # "/"
        THEN RStripSlash(head) ELSE head

\* C7: write_cleaned_data_to_csv writes to the directory of the input, to
\* the name of the input prefixed by "Cleaned_", also when the name occurs
\* in the directory part of the path.
C7_OutPathInSameDirectory ==
    Returned("write_cleaned_data_to_csv") =>
        /\ Dirname(out_path) = Dirname(csv_path)
        /\ Basename(out_path) = CleanedPrefix \o Basename(csv_path)

\* C8: a cleaned series indexed by date, written and loaded again
\* (read_csv, then set_df_index_to_date), gives the (timestamp, price) pairs
\* of the cleaned series in their order.
C8_ExportRoundTrip ==
    (Returned("write_cleaned_data_to_csv") /\ cleaned /\ df.index = "Date") =>
        /\ outFile.written
        /\ ~ColumnsMissing(outFile.columns)
        /\ LET again == IndexByDate(ReadFrame(outFile))
           IN  /\ again.err = NoError
               /\ again.df.index = "Date"
               /\ again.df.columns = {"Price"}
               /\ Len(again.df.rows) = Len(df.rows)
               /\ \A i \in 1..Len(df.rows) :
                     /\ again.df.rows[i].label = df.rows[i].label
                     /\ again.df.rows[i].Price = df.rows[i].Price

\* C9: whatever sequence of take_first_difference, identify_outliers and
\* clean_stock_data has run, the outliers do not hold the index value of
\* the first row of the series.
C9_FirstPointNeverFlagged ==
    (obj = "ready" /\ ~outliers.isNone /\ df.rows # <<>>) =>
        \A j \in 1..Len(outliers.rows) : outliers.rows[j].label # df.rows[1].label

\* C10: identify_outliers followed by clean_stock_data removes the flagged
\* rows only: every other row is still there, with its timestamp and price
\* and in its order, also when timestamps repeat.
C10_OnlyFlaggedRowsRemoved ==
    [][(Returned("identify_outliers") /\ last'.op = "clean_stock_data") =>
          LET flagged == {outliers.rows[j] : j \in 1..Len(outliers.rows)}
              others == {i \in 1..Len(df.rows) : df.rows[i] \notin flagged}
          IN  df'.rows = RowsAt(df.rows, others, 1)]_vars

\* C11: on a detector whose outliers are still None, clean_stock_data
\* raises an error, cleans nothing and leaves the series as it was.
C11_CleanWithoutDetectionFails ==
    [][(obj = "ready" /\ outliers.isNone /\ last'.op = "clean_stock_data") =>
          /\ last'.err # NoError
          /\ last'.err[1] = "AttributeError"
          /\ df' = df
          /\ outliers' = outliers
          /\ cleaned' = cleaned]_vars

\* a failed clean_stock_data on a loaded series on which no detection
\* has stored outliers
C11_Witness ==
    /\ obj = "ready"
    /\ last.op = "clean_stock_data"
    /\ last.err # NoError
    /\ outliers.isNone
    /\ ~cleaned
    /\ df.rows # <<>>
    /\ "Pcnt Change" \notin df.columns

\* the index values of the stored outliers
OutlierSet == {outliers.rows[j].label : j \in 1..Len(outliers.rows)}

\* C12: after identify_outliers(t) every point with abs(percent_change) > t
\* that is not in OutlierSet is the rebound of an adjacent outlier: the
\* point before it is itself in OutlierSet, also in a run of three or more
\* consecutive points over the tolerance.
C12_SuppressedPointFollowsAnOutlier ==
    Returned("identify_outliers") =>
        \A i \in Candidates(df.rows, last.tol) :
            df.rows[i].label \notin OutlierSet =>
                i > 1 /\ df.rows[i - 1].label \in OutlierSet

\* C12, amended: after identify_outliers(t) every point with
\* abs(percent_change) > t that is not in OutlierSet is the rebound of a
\* candidate, which need not be an outlier: its index value is that of a
\* point whose preceding point has abs(percent_change) > t.
C12_SuppressedPointFollowsACandidate ==
    Returned("identify_outliers") =>
        \A i \in Candidates(df.rows, last.tol) :
            df.rows[i].label \notin OutlierSet =>
                \E j \in 2..Len(df.rows) :
                    /\ df.rows[j].label = df.rows[i].label
                    /\ Big(df.rows[j - 1].PC, last.tol)

\* three consecutive points over the tolerance, with distinct index
\* values: the third is not flagged, and neither is the second before it
C12_Witness ==
    /\ Returned("identify_outliers")
    /\ \A i, j \in 1..Len(df.rows) : i # j => df.rows[i].label # df.rows[j].label
    /\ \E i \in 3..Len(df.rows) :
          /\ {i - 2, i - 1, i} \subseteq Candidates(df.rows, last.tol)
          /\ df.rows[i - 2].label \in OutlierSet
          /\ df.rows[i - 1].label \notin OutlierSet
          /\ df.rows[i].label \notin OutlierSet

====
